---- MODULE Spec2Model ----
(***************************************************************************)
(* Model of codes/data/byol_attachment.py (RandomSharedRegionCrop, the     *)
(* dataset wrappers, reconstructed_shared_regions) and of the code         *)
(* recording of codes/models/gpt_voice/lucidrains_dvae.py.                 *)
(*                                                                         *)
(* Tensors are modelled by their spatial shape <<rows, cols>> (the channel *)
(* dimension plays no part in any slice), masks by their per-pixel weight. *)
(***************************************************************************)
EXTENDS Integers, Sequences, FiniteSets, TLC

VARIABLES
    multiple, jitter_range,                  \* RandomSharedRegionCrop.__init__
    i1, i2,                                  \* shapes <<H, W>> of the two inputs of forward
    pc, status,                              \* position in forward / how the call ended
    d,                                       \* grid side (Step 1)
    base_w, base_l, base_h, base_t,          \* Step 2
    im2_w, im2_l, im2_h, im2_t,              \* Step 3
    jl, jt, p1, p2,                          \* Step 6: jitter, shapes of the patches
    recompute_package,                       \* Step 7
    mask1, mask2,                            \* Step 8
    mask_dbg,                                \* Step 8: `mask`, the weights behind masked_dbg
    wrapped_dataset, cropped_img_size,       \* the dataset wrappers' fields
    wcall,                                   \* the last wrapper call and what it returned
    batch, rs,                               \* a collated batch of packages, and the
                                             \* outcome of reconstructed_shared_regions
    record_codes, code_ind, internal_step,   \* DiscreteVAE fields
    dcall,                                   \* the last DiscreteVAE.forward call
    text, input_text, cpc                    \* english_cleaners: the text, its argument,
                                             \* the position in the pipeline

cropVars == <<multiple, jitter_range, i1, i2, pc, status, d,
              base_w, base_l, base_h, base_t, im2_w, im2_l, im2_h, im2_t,
              jl, jt, p1, p2, recompute_package, mask1, mask2, mask_dbg>>

wrapVars == <<wrapped_dataset, cropped_img_size, wcall>>
batchVars == <<batch, rs>>
dvaeVars == <<record_codes, code_ind, internal_step, dcall>>
cleanVars == <<text, input_text, cpc>>

vars == <<cropVars, wrapVars, batchVars, dvaeVars, cleanVars>>

(***************************************************************************)
(* Bounds of the model.                                                    *)
(***************************************************************************)
MaxGrid == 5          \* largest grid side d = side / multiple explored by Spec
MaxMultiple == 2      \* multiples 1..MaxMultiple
MaxJitter == 2        \* jitter ranges 0..MaxJitter explored by SpecJitter
JitterGrid == 4       \* largest grid side explored by SpecJitter
MaxItems == 2         \* largest length of the wrapped dataset
WrapGrid == 4         \* largest image side of the wrapped dataset's records
MaxBatch == 2         \* largest batch given to reconstructed_shared_regions
BatchGrid == 4        \* largest grid side of the batch's packages
MaxStep == 120        \* DiscreteVAE.forward is called at most MaxStep times
MaxText == 4          \* longest text given to english_cleaners

(***************************************************************************)
(* Python primitives.                                                      *)
(***************************************************************************)
Min(a, b) == IF a < b THEN a ELSE b
Max(a, b) == IF a > b THEN a ELSE b
Abs(a) == IF a < 0 THEN -a ELSE a

\* random.randint(a, b): any integer of [a, b]
RandInt(a, b) == a..b

\* One bound of a Python slice on a dimension of length n: a negative index
\* counts from the end, and the result is clamped to [0, n].
SliceBound(x, n) == IF x < 0 THEN Max(x + n, 0) ELSE Min(x, n)

\* The number of indices selected by seq[a:b] on a dimension of length n.
SliceLen(a, b, n) == Max(SliceBound(b, n) - SliceBound(a, n), 0)

\* Broadcasting of two sizes along one dimension (elementwise product).
Broadcastable(a, b) == a = b \/ a = 1 \/ b = 1

NoValue == <<>>

(***************************************************************************)
(* byol_attachment.py helpers.                                             *)
(***************************************************************************)
snap_unguarded(ref, other) == other - ref

snap(ref, other) == IF other < ref THEN 0 ELSE other - ref

\* min(base_b, im2_b) - max(base_t, im2_t), and the same for the width
Overlap_wrong(lo1, hi1, lo2, hi2) == Max(hi1, hi2) - Max(lo1, lo2)

Overlap(lo1, hi1, lo2, hi2) == Min(hi1, hi2) - Max(lo1, lo2)

\* pad_to(im, dd): torch.zeros((.., dd, dd)) needs dd >= 0, and the assignment
\* pd[.., :rows, :cols] = im needs im to broadcast to the slice it is assigned to
PadFits(shape, dd) ==
    /\ dd >= 0
    /\ Broadcastable(shape[1], SliceLen(0, shape[1], dd))
    /\ Broadcastable(shape[2], SliceLen(0, shape[2], dd))

\* torch.full((1, h, w), .5) followed by mask[:, r0:r1, c0:c1] = 1: the mask is
\* kept as its shape and the resolved bounds of the slice that was set to 1
Half == "0.5"
Full == "1"
FilledMask(h, w, r0, r1, c0, c1) ==
    [ shape |-> <<h, w>>,
      rows  |-> <<SliceBound(r0, h), SliceBound(r1, h)>>,
      cols  |-> <<SliceBound(c0, w), SliceBound(c1, w)>> ]

\* the pixels of a mask, and the weight of pixel (r, c)
Pixels(mask) == (0..(mask.shape[1] - 1)) \X (0..(mask.shape[2] - 1))
Weight(mask, r, c) ==
    IF /\ mask.rows[1] <= r /\ r < mask.rows[2]
       /\ mask.cols[1] <= c /\ c < mask.cols[2]
    THEN Full ELSE Half

\* Step 7: the recompute package of two crops given as (t, l, h, w)
Package(bt, bl, bh, bw, it, il, ih, iw) ==
    << bh, bw, snap(bt, it), snap(bl, il),
       ih, iw, snap(it, bt), snap(il, bl),
       Overlap(bt, bt + bh, it, it + ih), Overlap(bl, bl + bw, il, il + iw) >>

\* Steps 2 and 3: the crops <<t, l, h, w>> the four random.randint calls can
\* draw on a grid of side dd
Crops(dd) ==
    UNION { UNION { UNION { { <<t, l, h, w>> : t \in RandInt(0, dd - h) }
                            : h \in RandInt(w - 1, w + 1) }
                    : l \in RandInt(0, dd - w) }
            : w \in RandInt(dd \div 2, dd - 1) }

\* Step 6: the jitter as adjusted for a patch starting at grid position lo and
\* ending at hi, against the image height `side`
Jitter(raw, lo, hi, m, side) ==
    LET j1 == IF lo # 0 THEN raw ELSE Abs(raw)
    IN  IF hi * m # side THEN j1 ELSE 0

\* Step 6: shape of img[:, t*m+jt:(t+h)*m+jt, l*m+jl:(l+w)*m+jl]
PatchShape(t, h, l, w, vjt, vjl, m, img) ==
    << SliceLen(t * m + vjt, (t + h) * m + vjt, img[1]),
       SliceLen(l * m + vjl, (l + w) * m + vjl, img[2]) >>

\* no_batch_interpolate: F.interpolate refuses an input with an empty dimension
Interpolable(shape) == shape[1] > 0 /\ shape[2] > 0

\* p * mask followed by pad_to(.., dd): the product broadcasts and fits
MaskedOk(p, mh, mw, dd) ==
    /\ Broadcastable(p[1], mh) /\ Broadcastable(p[2], mw)
    /\ PadFits(<<Max(p[1], mh), Max(p[2], mw)>>, dd)

(***************************************************************************)
(* RandomSharedRegionCrop.forward, one action per step of its outline.     *)
(***************************************************************************)
Locals0 ==
    /\ d = 0
    /\ base_w = 0 /\ base_l = 0 /\ base_h = 0 /\ base_t = 0
    /\ im2_w = 0 /\ im2_l = 0 /\ im2_h = 0 /\ im2_t = 0
    /\ jl = 0 /\ jt = 0 /\ p1 = NoValue /\ p2 = NoValue
    /\ recompute_package = NoValue /\ mask1 = NoValue /\ mask2 = NoValue
    /\ mask_dbg = NoValue

\* the shapes of an input pair around a side s: equal squares, or one of the
\* second image's sides off by one, or both widths off by one
ShapePairs(s) ==
    { << <<s, s>>, <<s, s>> >> }
    \cup { << <<s, s>>, <<s + e, s>> >> : e \in {-1, 1} }
    \cup { << <<s, s>>, <<s, s + e>> >> : e \in {-1, 1} }
    \cup { << <<s, s + e>>, <<s, s + e>> >> : e \in {-1, 1} }

InitCrop(maxGrid, jitters) ==
    /\ multiple \in 1..MaxMultiple
    /\ jitter_range \in jitters
    /\ \E s \in 2..(maxGrid * MaxMultiple) : \E sp \in ShapePairs(s) :
          /\ s <= maxGrid * multiple
          /\ i1 = sp[1] /\ i2 = sp[2]
    /\ pc = "idle" /\ status = "none"
    /\ Locals0

\* the two assert statements of forward, on images of shapes s1 and s2
AssertsHold(m, s1, s2) ==
    /\ s1[2] = s2[2]
    /\ s1[1] % m = 0 /\ s1[1] > m * 3

Step1 ==
    /\ pc = "idle"
    /\ UNCHANGED <<wrapVars, batchVars, dvaeVars, cleanVars>>
    /\ IF AssertsHold(multiple, i1, i2)
       THEN /\ d' = i1[1] \div multiple
            /\ pc' = "step2"
            /\ status' = "running"
       ELSE /\ d' = d
            /\ pc' = "raised"
            /\ status' = "AssertionError"
    /\ UNCHANGED <<multiple, jitter_range, i1, i2,
                   base_w, base_l, base_h, base_t, im2_w, im2_l, im2_h, im2_t,
                   jl, jt, p1, p2, recompute_package, mask1, mask2, mask_dbg>>

Step2 ==
    /\ pc = "step2"
    /\ UNCHANGED <<wrapVars, batchVars, dvaeVars, cleanVars>>
    /\ \E c \in Crops(d) :
          /\ base_t' = c[1] /\ base_l' = c[2] /\ base_h' = c[3] /\ base_w' = c[4]
    /\ pc' = "step3"
    /\ UNCHANGED <<multiple, jitter_range, i1, i2, status, d,
                   im2_w, im2_l, im2_h, im2_t,
                   jl, jt, p1, p2, recompute_package, mask1, mask2, mask_dbg>>

Step3 ==
    /\ pc = "step3"
    /\ UNCHANGED <<wrapVars, batchVars, dvaeVars, cleanVars>>
    /\ \E c \in Crops(d) :
          /\ im2_t' = c[1] /\ im2_l' = c[2] /\ im2_h' = c[3] /\ im2_w' = c[4]
    /\ pc' = "step6_p1"
    /\ UNCHANGED <<multiple, jitter_range, i1, i2, status, d,
                   base_w, base_l, base_h, base_t,
                   jl, jt, p1, p2, recompute_package, mask1, mask2, mask_dbg>>

Step6_p1 ==
    /\ pc = "step6_p1"
    /\ UNCHANGED <<wrapVars, batchVars, dvaeVars, cleanVars>>
    /\ \E rl \in RandInt(-jitter_range, jitter_range) :
       \E rt \in RandInt(-jitter_range, jitter_range) :
          /\ jt' = Jitter(rt, base_t, base_t + base_h, multiple, i1[1])
          /\ jl' = Jitter(rl, base_l, base_l + base_w, multiple, i1[1])
    /\ p1' = PatchShape(base_t, base_h, base_l, base_w, jt', jl', multiple, i1)
    /\ IF Interpolable(p1')
       THEN pc' = "step6_p2" /\ status' = status
       ELSE pc' = "raised" /\ status' = "RuntimeError"
    /\ UNCHANGED <<multiple, jitter_range, i1, i2, d,
                   base_w, base_l, base_h, base_t, im2_w, im2_l, im2_h, im2_t,
                   p2, recompute_package, mask1, mask2, mask_dbg>>

Step6_p2 ==
    /\ pc = "step6_p2"
    /\ UNCHANGED <<wrapVars, batchVars, dvaeVars, cleanVars>>
    /\ \E rl \in RandInt(-jitter_range, jitter_range) :
       \E rt \in RandInt(-jitter_range, jitter_range) :
          /\ jt' = Jitter(rt, im2_t, im2_t + im2_h, multiple, i2[1])
          /\ jl' = Jitter(rl, im2_l, im2_l + im2_w, multiple, i2[1])
    /\ p2' = PatchShape(im2_t, im2_h, im2_l, im2_w, jt', jl', multiple, i2)
    /\ IF Interpolable(p2')
       THEN pc' = "step7" /\ status' = status
       ELSE pc' = "raised" /\ status' = "RuntimeError"
    /\ UNCHANGED <<multiple, jitter_range, i1, i2, d,
                   base_w, base_l, base_h, base_t, im2_w, im2_l, im2_h, im2_t,
                   p1, recompute_package, mask1, mask2, mask_dbg>>

Step7 ==
    /\ pc = "step7"
    /\ UNCHANGED <<wrapVars, batchVars, dvaeVars, cleanVars>>
    /\ recompute_package' = Package(base_t, base_l, base_h, base_w,
                                    im2_t, im2_l, im2_h, im2_w)
    /\ pc' = "step8"
    /\ UNCHANGED <<multiple, jitter_range, i1, i2, status, d,
                   base_w, base_l, base_h, base_t, im2_w, im2_l, im2_h, im2_t,
                   jl, jt, p1, p2, mask1, mask2, mask_dbg>>

\* the names Step 7 gives to the entries of the package
i1_shared_t == recompute_package[3]
i1_shared_l == recompute_package[4]
i2_shared_t == recompute_package[7]
i2_shared_l == recompute_package[8]
ix_h == recompute_package[9]
ix_w == recompute_package[10]

\* mask1 / mask2 of Step 8 for a crop of h x w grid units whose shared region
\* starts at (st, sl) and measures ixh x ixw
SharedMask(h, w, st, sl, ixh, ixw, m) ==
    FilledMask(h * m, w * m, st * m, (st + ixh) * m, sl * m, (sl + ixw) * m)

\* Step 8 raises unless p1 * mask1, p2 * mask2 and i1 * mask are well shaped
Step8Ok(vp1, vp2, bh, bw, ih, iw, m, dd, img) ==
    /\ MaskedOk(vp1, bh * m, bw * m, dd * m)
    /\ MaskedOk(vp2, ih * m, iw * m, dd * m)
    /\ Broadcastable(img[1], dd * m) /\ Broadcastable(img[2], dd * m)

\* mask = torch.full((1, d*m, d*m), .33), then += .33 on each of the two slices
\* [t*m:(t+w)*m, l*m:(l+h)*m]: kept as its shape and the resolved slices
AddedRegion(t, l, h, w, m, side) ==
    [ rows |-> <<SliceBound(t * m, side), SliceBound((t + w) * m, side)>>,
      cols |-> <<SliceBound(l * m, side), SliceBound((l + h) * m, side)>> ]

DebugMask(dd, m, bt, bl, bh, bw, it, il, ih, iw) ==
    [ shape |-> <<dd * m, dd * m>>,
      added |-> << AddedRegion(bt, bl, bh, bw, m, dd * m),
                   AddedRegion(it, il, ih, iw, m, dd * m) >> ]

\* the weight of pixel (r, c) of the debug mask, in units of .33
InRegion(reg, r, c) ==
    /\ reg.rows[1] <= r /\ r < reg.rows[2]
    /\ reg.cols[1] <= c /\ c < reg.cols[2]
DebugWeight(mk, r, c) ==
    1 + (IF InRegion(mk.added[1], r, c) THEN 1 ELSE 0)
      + (IF InRegion(mk.added[2], r, c) THEN 1 ELSE 0)

Step8 ==
    /\ pc = "step8"
    /\ mask_dbg' = IF /\ MaskedOk(p1, base_h * multiple, base_w * multiple, d * multiple)
                      /\ MaskedOk(p2, im2_h * multiple, im2_w * multiple, d * multiple)
                   THEN DebugMask(d, multiple, base_t, base_l, base_h, base_w,
                                  im2_t, im2_l, im2_h, im2_w)
                   ELSE mask_dbg
    /\ UNCHANGED <<wrapVars, batchVars, dvaeVars, cleanVars>>
    /\ mask1' = SharedMask(base_h, base_w, i1_shared_t, i1_shared_l, ix_h, ix_w, multiple)
    /\ mask2' = IF MaskedOk(p1, base_h * multiple, base_w * multiple, d * multiple)
                THEN SharedMask(im2_h, im2_w, i2_shared_t, i2_shared_l, ix_h, ix_w, multiple)
                ELSE mask2
    /\ IF Step8Ok(p1, p2, base_h, base_w, im2_h, im2_w, multiple, d, i1)
       THEN pc' = "returned" /\ status' = "ok"
       ELSE pc' = "raised" /\ status' = "RuntimeError"
    /\ UNCHANGED <<multiple, jitter_range, i1, i2, d,
                   base_w, base_l, base_h, base_t, im2_w, im2_l, im2_h, im2_t,
                   jl, jt, p1, p2, recompute_package>>

\* the call is over: its locals are gone, the module is ready for the next call
Return ==
    /\ pc \in {"returned", "raised"}
    /\ UNCHANGED <<wrapVars, batchVars, dvaeVars, cleanVars>>
    /\ pc' = "idle" /\ status' = "none"
    /\ d' = 0
    /\ base_w' = 0 /\ base_l' = 0 /\ base_h' = 0 /\ base_t' = 0
    /\ im2_w' = 0 /\ im2_l' = 0 /\ im2_h' = 0 /\ im2_t' = 0
    /\ jl' = 0 /\ jt' = 0 /\ p1' = NoValue /\ p2' = NoValue
    /\ recompute_package' = NoValue /\ mask1' = NoValue /\ mask2' = NoValue
    /\ mask_dbg' = NoValue
    /\ UNCHANGED <<multiple, jitter_range, i1, i2>>

\* forward as one call: what it can return or raise for images of shapes s1, s2
ForwardOutcome(m, s1, s2, c1, c2, r1t, r1l, r2t, r2l) ==
    LET dd  == s1[1] \div m
        vp1 == PatchShape(c1[1], c1[3], c1[2], c1[4],
                          Jitter(r1t, c1[1], c1[1] + c1[3], m, s1[1]),
                          Jitter(r1l, c1[2], c1[2] + c1[4], m, s1[1]), m, s1)
        vp2 == PatchShape(c2[1], c2[3], c2[2], c2[4],
                          Jitter(r2t, c2[1], c2[1] + c2[3], m, s2[1]),
                          Jitter(r2l, c2[2], c2[2] + c2[4], m, s2[1]), m, s2)
    IN  IF /\ Interpolable(vp1) /\ Interpolable(vp2)
           /\ Step8Ok(vp1, vp2, c1[3], c1[4], c2[3], c2[4], m, dd, s1)
        THEN [ status |-> "ok",
               p1_resized |-> <<dd * m, dd * m>>,
               p2_resized |-> <<dd * m, dd * m>>,
               recompute_package |-> Package(c1[1], c1[2], c1[3], c1[4],
                                             c2[1], c2[2], c2[3], c2[4]),
               masked1 |-> <<dd * m, dd * m>>,
               masked2 |-> <<dd * m, dd * m>>,
               masked_dbg |-> <<Max(s1[1], dd * m), Max(s1[2], dd * m)>> ]
        ELSE [ status |-> "RuntimeError" ]

ForwardOutcomes(m, j, s1, s2) ==
    IF ~AssertsHold(m, s1, s2)
    THEN { [ status |-> "AssertionError" ] }
    ELSE { ForwardOutcome(m, s1, s2, c[1], c[2], r[1], r[2], r[3], r[4]) :
             c \in Crops(s1[1] \div m) \X Crops(s1[1] \div m),
             r \in RandInt(-j, j) \X RandInt(-j, j) \X RandInt(-j, j) \X RandInt(-j, j) }

(***************************************************************************)
(* text/cleaners.py.  A text is a sequence of characters, each character a *)
(* one-character string (a character outside ASCII is named by its code    *)
(* point).                                                                 *)
(***************************************************************************)
\* the characters matched by \s and by \w in the texts explored
Whitespace == {" ", "\t"}
LowerLetters == {"a", "b", "c", "d", "e", "f", "g", "h", "i", "j", "k", "l", "m", "n", "o", "p", "q", "r", "s", "t", "u", "v", "w", "x", "y", "z"}
UpperLetters == {"A", "B", "C", "D", "E", "F", "G", "H", "I", "J", "K", "L", "M", "N", "O", "P", "Q", "R", "S", "T", "U", "V", "W", "X", "Y", "Z"}
KurdishLetters ==
    {"U+0624", "U+0626", "U+0627", "U+0628", "U+062A", "U+062B",
     "U+062C", "U+062D", "U+062E", "U+062F", "U+0631", "U+0632",
     "U+0633", "U+0634", "U+0639", "U+063A", "U+0641", "U+0642",
     "U+0643", "U+0644", "U+0645", "U+0646", "U+0647", "U+0648",
     "U+0649", "U+064A", "U+067E", "U+0686", "U+0695", "U+0698",
     "U+06A4", "U+06A9", "U+06AF", "U+06B5", "U+06BE", "U+06C6",
     "U+06CC", "U+06CE", "U+06D5"}
WordChars == LowerLetters \cup UpperLetters \cup KurdishLetters \cup {"_"}

\* str.lower on one character
LowerChar(c) ==
    CASE c = "A" -> "a"
      [] c = "B" -> "b"
      [] c = "C" -> "c"
      [] c = "D" -> "d"
      [] c = "E" -> "e"
      [] c = "F" -> "f"
      [] c = "G" -> "g"
      [] c = "H" -> "h"
      [] c = "I" -> "i"
      [] c = "J" -> "j"
      [] c = "K" -> "k"
      [] c = "L" -> "l"
      [] c = "M" -> "m"
      [] c = "N" -> "n"
      [] c = "O" -> "o"
      [] c = "P" -> "p"
      [] c = "Q" -> "q"
      [] c = "R" -> "r"
      [] c = "S" -> "s"
      [] c = "T" -> "t"
      [] c = "U" -> "u"
      [] c = "V" -> "v"
      [] c = "W" -> "w"
      [] c = "X" -> "x"
      [] c = "Y" -> "y"
      [] c = "Z" -> "z"
      [] OTHER -> c

\* the (pattern, replacement) pairs of _abbreviations
Abbreviations ==
    << <<<<"m", "r", "s">>, <<"m", "i", "s", "e", "s", "s">>>>,
       <<<<"m", "r">>, <<"m", "i", "s", "t", "e", "r">>>>,
       <<<<"d", "r">>, <<"d", "o", "c", "t", "o", "r">>>>,
       <<<<"s", "t">>, <<"s", "a", "i", "n", "t">>>>,
       <<<<"c", "o">>, <<"c", "o", "m", "p", "a", "n", "y">>>>,
       <<<<"j", "r">>, <<"j", "u", "n", "i", "o", "r">>>>,
       <<<<"m", "a", "j">>, <<"m", "a", "j", "o", "r">>>>,
       <<<<"g", "e", "n">>, <<"g", "e", "n", "e", "r", "a", "l">>>>,
       <<<<"d", "r", "s">>, <<"d", "o", "c", "t", "o", "r", "s">>>>,
       <<<<"r", "e", "v">>, <<"r", "e", "v", "e", "r", "e", "n", "d">>>>,
       <<<<"l", "t">>, <<"l", "i", "e", "u", "t", "e", "n", "a", "n", "t">>>>,
       <<<<"h", "o", "n">>, <<"h", "o", "n", "o", "r", "a", "b", "l", "e">>>>,
       <<<<"s", "g", "t">>, <<"s", "e", "r", "g", "e", "a", "n", "t">>>>,
       <<<<"c", "a", "p", "t">>, <<"c", "a", "p", "t", "a", "i", "n">>>>,
       <<<<"e", "s", "q">>, <<"e", "s", "q", "u", "i", "r", "e">>>>,
       <<<<"l", "t", "d">>, <<"l", "i", "m", "i", "t", "e", "d">>>>,
       <<<<"c", "o", "l">>, <<"c", "o", "l", "o", "n", "e", "l">>>>,
       <<<<"f", "t">>, <<"f", "o", "r", "t">>>> >>

\* the (pattern, replacement) pairs of _ckb_transliterate
CkbTransliterate ==
    << <<<<"U+0624">>, <<"o">>>>,
       <<<<"U+0626">>, <<"e", "h">>>>,
       <<<<"U+0627">>, <<"a", "a">>>>,
       <<<<"U+0628">>, <<"b">>>>,
       <<<<"U+062A">>, <<"t">>>>,
       <<<<"U+062B">>, <<"t", "h">>>>,
       <<<<"U+062C">>, <<"j">>>>,
       <<<<"U+062D">>, <<"h", "e">>>>,
       <<<<"U+062E">>, <<"k", "h">>>>,
       <<<<"U+062F">>, <<"d">>>>,
       <<<<"U+0631">>, <<"r">>>>,
       <<<<"U+0632">>, <<"z">>>>,
       <<<<"U+0633">>, <<"s">>>>,
       <<<<"U+0634">>, <<"s", "h">>>>,
       <<<<"U+0639">>, <<"a", "'">>>>,
       <<<<"U+063A">>, <<"g", "h">>>>,
       <<<<"U+0641">>, <<"f">>>>,
       <<<<"U+0642">>, <<"q">>>>,
       <<<<"U+0643">>, <<"k">>>>,
       <<<<"U+0644">>, <<"l">>>>,
       <<<<"U+0645">>, <<"m">>>>,
       <<<<"U+0646">>, <<"n">>>>,
       <<<<"U+0647">>, <<"e", "h">>>>,
       <<<<"U+0648">>, <<"o", "o">>>>,
       <<<<"U+0649">>, <<"e", "e">>>>,
       <<<<"U+064A">>, <<"e", "e">>>>,
       <<<<"U+067E">>, <<"p">>>>,
       <<<<"U+0686">>, <<"c", "h">>>>,
       <<<<"U+0695">>, <<"r", "r">>>>,
       <<<<"U+0698">>, <<"z", "h">>>>,
       <<<<"U+06A4">>, <<"v">>>>,
       <<<<"U+06A9">>, <<"k">>>>,
       <<<<"U+06AF">>, <<"g">>>>,
       <<<<"U+06B5">>, <<"l", "l">>>>,
       <<<<"U+06BE">>, <<"h">>>>,
       <<<<"U+06C6">>, <<"o">>>>,
       <<<<"U+06CC">>, <<"y">>>>,
       <<<<"U+06CE">>, <<"y">>>>,
       <<<<"U+06D5">>, <<"e", "h">>>> >>

\* the pattern '\\b%s\\.' with re.IGNORECASE matches the text at position i
MatchesAt(txt, i, pat) ==
    /\ i + Len(pat) <= Len(txt)
    /\ \A k \in 1..Len(pat) : LowerChar(txt[i + k - 1]) = LowerChar(pat[k])
    /\ txt[i + Len(pat)] = "."
    /\ (i = 1 \/ txt[i - 1] \notin WordChars)

\* re.sub(regex, replacement, text): the non-overlapping matches from the left
RECURSIVE SubFrom(_, _, _, _)
SubFrom(txt, i, pat, repl) ==
    IF i > Len(txt) THEN <<>>
    ELSE IF MatchesAt(txt, i, pat)
         THEN repl \o SubFrom(txt, i + Len(pat) + 1, pat, repl)
         ELSE <<txt[i]>> \o SubFrom(txt, i + 1, pat, repl)

\* for regex, replacement in table: text = re.sub(regex, replacement, text)
RECURSIVE SubAll(_, _, _)
SubAll(txt, tbl, n) ==
    IF n > Len(tbl) THEN txt
    ELSE SubAll(SubFrom(txt, 1, tbl[n][1], tbl[n][2]), tbl, n + 1)

ckb_transliterate(txt) == SubAll(txt, CkbTransliterate, 1)

expand_abbreviations(txt) == SubAll(txt, Abbreviations, 1)

\* unidecode leaves the ASCII characters as they are
convert_to_ascii(txt) == txt

lowercase(txt) == [ k \in 1..Len(txt) |-> LowerChar(txt[k]) ]

\* normalize_numbers rewrites the numbers of a text; a text without a digit has
\* none
normalize_numbers(txt) == txt

expand_numbers(txt) == normalize_numbers(txt)

\* re.sub(r'\s+', ' ', text): each maximal run of whitespace becomes one space
RECURSIVE collapse_whitespace(_)
collapse_whitespace(txt) ==
    IF txt = <<>> THEN <<>>
    ELSE IF Head(txt) \in Whitespace
         THEN IF Len(txt) > 1 /\ txt[2] \in Whitespace
              THEN collapse_whitespace(Tail(txt))
              ELSE <<" ">> \o collapse_whitespace(Tail(txt))
         ELSE <<Head(txt)>> \o collapse_whitespace(Tail(txt))

\* text.replace('"', '')
RemoveQuotes(txt) == SelectSeq(txt, LAMBDA c : c # "\"")

\* the texts explored: up to MaxText characters of an alphabet with an upper
\* and a lower case letter, the full stop, two whitespace characters and the
\* double quote
Alphabet == {"S", "t", ".", " ", "\t", "\""}
Texts == UNION { [1..n -> Alphabet] : n \in 0..MaxText }

CleanIdle == text = <<>> /\ input_text = <<>> /\ cpc = "idle"

(***************************************************************************)
(* ByolDatasetWrapper and StructuredCropDatasetWrapper.  A record of the    *)
(* wrapped dataset is a function from its keys to values; an image value   *)
(* is its shape.                                                           *)
(***************************************************************************)
\* dict.update
Update_discarding(item, new) == new

Update(item, new) ==
    [ k \in (DOMAIN item) \cup (DOMAIN new) |->
        IF k \in DOMAIN new THEN new[k] ELSE item[k] ]

\* self.aug of ByolDatasetWrapper ends with RandomResizedCrop((size, size))
ByolAug(img) == <<cropped_img_size, cropped_img_size>>

\* self.aug of StructuredCropDatasetWrapper keeps the image's shape
StructuredAug(img) == img

\* the records a wrapped dataset can hold: 'hq' and 'lq' images alone, or with
\* a 'GT_path' and a key named like an added one
ExtraKeys == { {}, {"GT_path", "aug1"} }
Records ==
    { [ k \in {"hq", "lq"} \cup ks |->
          CASE k = "hq" -> <<s, s>>
            [] k = "lq" -> <<s, s>>
            [] k = "GT_path" -> "a.png"
            [] OTHER -> "stale" ] :
        ks \in ExtraKeys, s \in (WrapGrid - 1)..WrapGrid }

CodesIdle ==
    /\ record_codes = FALSE /\ code_ind = 0 /\ internal_step = 0
    /\ dcall = NoValue

BatchIdle == batch = <<>> /\ rs = NoValue

WrapIdle ==
    /\ wrapped_dataset = <<>> /\ cropped_img_size = 0 /\ wcall = NoValue

CropIdle ==
    /\ multiple = 1 /\ jitter_range = 0
    /\ i1 = NoValue /\ i2 = NoValue
    /\ pc = "idle" /\ status = "none"
    /\ Locals0

InitWrap ==
    /\ CropIdle /\ BatchIdle /\ CodesIdle /\ CleanIdle
    /\ \E n \in 1..MaxItems : wrapped_dataset \in [1..n -> Records]
    /\ cropped_img_size = 2
    /\ wcall = NoValue

ByolGetItem ==
    /\ wcall = NoValue
    /\ UNCHANGED <<wrapped_dataset, cropped_img_size, cropVars, batchVars, dvaeVars, cleanVars>>
    /\ \E index \in 1..Len(wrapped_dataset) :
        LET item == wrapped_dataset[index]
        IN  wcall' = [ op |-> "ByolDatasetWrapper.__getitem__",
                       index |-> index, status |-> "ok",
                       result |-> Update(item, [ aug1 |-> ByolAug(item["hq"]),
                                                 aug2 |-> ByolAug(item["lq"]) ]) ]

StructuredGetItem ==
    /\ wcall = NoValue
    /\ UNCHANGED <<wrapped_dataset, cropped_img_size, cropVars, batchVars, dvaeVars, cleanVars>>
    /\ \E index \in 1..Len(wrapped_dataset) :
        LET item == wrapped_dataset[index]
            a1 == StructuredAug(item["hq"])
            a2 == StructuredAug(item["lq"])
        IN  \E o \in ForwardOutcomes(multiple, jitter_range, a1, a2) :
              wcall' =
                IF o.status = "ok"
                THEN [ op |-> "StructuredCropDatasetWrapper.__getitem__",
                       index |-> index, status |-> "ok",
                       result |-> Update(item,
                           [ aug1 |-> o.p1_resized, aug2 |-> o.p2_resized,
                             similar_region_dimensions |-> o.recompute_package,
                             masked1 |-> o.masked1, masked2 |-> o.masked2,
                             aug_shared_view |-> o.masked_dbg ]) ]
                ELSE [ op |-> "StructuredCropDatasetWrapper.__getitem__",
                       index |-> index, status |-> o.status, result |-> NoValue ]

ByolLen ==
    /\ wcall = NoValue
    /\ UNCHANGED <<wrapped_dataset, cropped_img_size, cropVars, batchVars, dvaeVars, cleanVars>>
    /\ wcall' = [ op |-> "ByolDatasetWrapper.__len__", index |-> 0, status |-> "ok",
               result |-> Len(wrapped_dataset) ]

StructuredLen ==
    /\ wcall = NoValue
    /\ UNCHANGED <<wrapped_dataset, cropped_img_size, cropVars, batchVars, dvaeVars, cleanVars>>
    /\ wcall' = [ op |-> "StructuredCropDatasetWrapper.__len__", index |-> 0,
               status |-> "ok", result |-> Len(wrapped_dataset) ]

\* the caller has taken the result; the wrapper is ready for the next call
WrapReturn ==
    /\ wcall # NoValue /\ wcall' = NoValue
    /\ UNCHANGED <<wrapped_dataset, cropped_img_size, cropVars, batchVars, dvaeVars, cleanVars>>

NextWrap == ByolGetItem \/ StructuredGetItem \/ ByolLen \/ StructuredLen \/ WrapReturn

SpecWrap == InitWrap /\ [][NextWrap]_vars

(***************************************************************************)
(* reconstructed_shared_regions on a batch of recompute packages.          *)
(***************************************************************************)
InitBatch ==
    /\ multiple = 1 /\ jitter_range = 0
    /\ \E s \in 4..BatchGrid : i1 = <<s, s>> /\ i2 = <<s, s>>
    /\ pc = "idle" /\ status = "none"
    /\ Locals0
    /\ WrapIdle /\ CodesIdle /\ CleanIdle
    /\ batch = <<>> /\ rs = NoValue

\* the data loader stacks the package of one more sample of the dataset
Collate ==
    /\ rs = NoValue
    /\ UNCHANGED <<cropVars, wrapVars, dvaeVars, cleanVars>>
    /\ Len(batch) < MaxBatch
    /\ \E o \in ForwardOutcomes(multiple, jitter_range, i1, i2) :
          /\ o.status = "ok"
          /\ batch' = Append(batch, o.recompute_package)
    /\ rs' = rs

\* torch.max(package[:, -2:])
PadDim(package) ==
    LET vals == { package[b][9] : b \in 1..Len(package) }
                \cup { package[b][10] : b \in 1..Len(package) }
    IN  CHOOSE v \in vals : \A u \in vals : u <= v

\* shape of fs[:, :, s_t:s_t+s_h, s_l:s_l+s_w] for fs resized to f_h x f_w
SharedSlice(f_h, f_w, s_t, s_l, s_h, s_w) ==
    << SliceLen(s_t, s_t + s_h, f_h), SliceLen(s_l, s_l + s_w, f_w) >>

Reconstruct ==
    /\ rs = NoValue
    /\ UNCHANGED <<cropVars, wrapVars, dvaeVars, cleanVars>>
    /\ Len(batch) >= 1
    /\ LET pad_dim == PadDim(batch)
           sl1 == [ b \in 1..Len(batch) |->
                      SharedSlice(batch[b][1], batch[b][2], batch[b][3], batch[b][4],
                                  batch[b][9], batch[b][10]) ]
           sl2 == [ b \in 1..Len(batch) |->
                      SharedSlice(batch[b][5], batch[b][6], batch[b][7], batch[b][8],
                                  batch[b][9], batch[b][10]) ]
           ok  == \A b \in 1..Len(batch) :
                      PadFits(sl1[b], pad_dim) /\ PadFits(sl2[b], pad_dim)
       IN  rs' = [ status |-> IF ok THEN "ok" ELSE "RuntimeError",
                   pad_dim |-> pad_dim, slices1 |-> sl1, slices2 |-> sl2 ]
    /\ batch' = batch

\* the training step is over; the next batch starts empty
Release ==
    /\ rs # NoValue
    /\ UNCHANGED <<cropVars, wrapVars, dvaeVars, cleanVars>>
    /\ batch' = <<>> /\ rs' = NoValue

NextBatch == Collate \/ Reconstruct \/ Release

SpecBatch == InitBatch /\ [][NextBatch]_vars

(***************************************************************************)
(* DiscreteVAE: the recording of codes in forward.                         *)
(***************************************************************************)
CodesLen == 32768      \* self.codes.shape[0]
RecordEvery == 50      \* codes are recorded when internal_step % 50 == 0

\* the flattened code counts of the calls
CodeCounts ==
    {1, 2, CodesLen \div 2 - 1, CodesLen \div 2, CodesLen - 1, CodesLen, CodesLen + 1}

InitCodes ==
    /\ CropIdle /\ WrapIdle /\ BatchIdle /\ CleanIdle
    /\ record_codes \in BOOLEAN
    /\ code_ind = 0 /\ internal_step = 0
    /\ dcall = NoValue

\* i = self.code_ind if (self.codes.shape[0] - self.code_ind) > l else self.codes.shape[0] - l
WriteIndex_unclamped(ci, l) == ci

WriteIndex(ci, l) == IF (CodesLen - ci) > l THEN ci ELSE CodesLen - l

\* self.code_ind = self.code_ind + l, reset to 0 at the end of the buffer
NextCodeInd(ci, l) == IF ci + l >= CodesLen THEN 0 ELSE ci + l

\* self.codes[i:i+l] = codes: the slice written, or a shape mismatch
CodesForward(l) ==
    IF record_codes /\ internal_step % RecordEvery = 0
    THEN LET i  == WriteIndex(code_ind, l)
             lo == SliceBound(i, CodesLen)
             hi == SliceBound(i + l, CodesLen)
         IN  IF Broadcastable(l, Max(hi - lo, 0))
             THEN /\ dcall' = [ l |-> l, step |-> internal_step, recorded |-> TRUE,
                                i |-> i, written |-> <<lo, hi>>, status |-> "ok" ]
                  /\ code_ind' = NextCodeInd(code_ind, l)
                  /\ internal_step' = internal_step + 1
             ELSE /\ dcall' = [ l |-> l, step |-> internal_step, recorded |-> FALSE,
                                i |-> i, written |-> NoValue, status |-> "RuntimeError" ]
                  /\ UNCHANGED <<code_ind, internal_step>>
    ELSE /\ dcall' = [ l |-> l, step |-> internal_step, recorded |-> FALSE,
                       i |-> 0, written |-> NoValue, status |-> "ok" ]
         /\ internal_step' = internal_step + 1
         /\ code_ind' = code_ind

\* DiscreteVAE.forward on an input that encodes to l codes
DVAEForward ==
    /\ internal_step < MaxStep
    /\ \E l \in CodeCounts : CodesForward(l)
    /\ UNCHANGED <<record_codes, cropVars, wrapVars, batchVars, cleanVars>>

NextCodes == DVAEForward

SpecCodes == InitCodes /\ [][NextCodes]_vars

(***************************************************************************)
(* english_cleaners as a state machine.                                    *)
(***************************************************************************)
InitClean ==
    /\ CropIdle /\ WrapIdle /\ BatchIdle /\ CodesIdle
    /\ input_text \in Texts
    /\ text = input_text
    /\ cpc = "ckb_transliterate"

\* english_cleaners, one action per line of its pipeline
\* text = ckb_transliterate(text)
CkbTransliterateStep ==
    /\ cpc = "ckb_transliterate"
    /\ text' = ckb_transliterate(text)
    /\ cpc' = "convert_to_ascii"
    /\ UNCHANGED <<input_text, cropVars, wrapVars, batchVars, dvaeVars>>

\* text = convert_to_ascii(text)
ConvertToAsciiStep ==
    /\ cpc = "convert_to_ascii"
    /\ text' = convert_to_ascii(text)
    /\ cpc' = "lowercase"
    /\ UNCHANGED <<input_text, cropVars, wrapVars, batchVars, dvaeVars>>

\* text = lowercase(text)
LowercaseStep ==
    /\ cpc = "lowercase"
    /\ text' = lowercase(text)
    /\ cpc' = "expand_numbers"
    /\ UNCHANGED <<input_text, cropVars, wrapVars, batchVars, dvaeVars>>

\* text = expand_numbers(text)
ExpandNumbersStep ==
    /\ cpc = "expand_numbers"
    /\ text' = expand_numbers(text)
    /\ cpc' = "expand_abbreviations"
    /\ UNCHANGED <<input_text, cropVars, wrapVars, batchVars, dvaeVars>>

\* text = expand_abbreviations(text)
ExpandAbbreviationsStep ==
    /\ cpc = "expand_abbreviations"
    /\ text' = expand_abbreviations(text)
    /\ cpc' = "collapse_whitespace"
    /\ UNCHANGED <<input_text, cropVars, wrapVars, batchVars, dvaeVars>>

\* text = collapse_whitespace(text)
CollapseWhitespaceStep ==
    /\ cpc = "collapse_whitespace"
    /\ text' = collapse_whitespace(text)
    /\ cpc' = "replace"
    /\ UNCHANGED <<input_text, cropVars, wrapVars, batchVars, dvaeVars>>

\* text = text.replace('"', ''); return text
RemoveQuotesStep ==
    /\ cpc = "replace"
    /\ text' = RemoveQuotes(text)
    /\ cpc' = "returned"
    /\ UNCHANGED <<input_text, cropVars, wrapVars, batchVars, dvaeVars>>

NextClean ==
    \/ CkbTransliterateStep \/ ConvertToAsciiStep \/ LowercaseStep \/ ExpandNumbersStep
    \/ ExpandAbbreviationsStep \/ CollapseWhitespaceStep \/ RemoveQuotesStep

SpecClean == InitClean /\ [][NextClean]_vars

(***************************************************************************)
(* The specifications of RandomSharedRegionCrop.forward.                   *)
(***************************************************************************)
Init == InitCrop(MaxGrid, {0}) /\ WrapIdle /\ BatchIdle /\ CodesIdle /\ CleanIdle

Next == Step1 \/ Step2 \/ Step3 \/ Step6_p1 \/ Step6_p2 \/ Step7 \/ Step8 \/ Return

Spec == Init /\ [][Next]_vars

InitJitter == InitCrop(JitterGrid, 0..MaxJitter) /\ WrapIdle /\ BatchIdle /\ CodesIdle /\ CleanIdle

SpecJitter == InitJitter /\ [][Next]_vars

(***************************************************************************)
(* Properties of RandomSharedRegionCrop.forward.                           *)
(***************************************************************************)
\* both crops have been drawn (Steps 2 and 3 are over)
CropsChosen == pc \in {"step6_p1", "step6_p2", "step7", "step8", "returned"}

\* Step 7 has built the package
PackageBuilt == pc \in {"step8", "returned"}

\* grid cell (row, col) lies inside the crop (t, l, h, w)
InCrop(row, col, t, l, h, w) ==
    /\ t <= row /\ row < t + h
    /\ l <= col /\ col < l + w

\* a valid input of forward: two squares of the same side
ValidInput == i1 = i2 /\ i1[1] = i1[2]

\* C1: for every valid input, each of the two crop rectangles covers at least half the grid along
\* both axes: 2*base_w >= d, 2*base_h >= d, 2*im2_w >= d and 2*im2_h >= d.
C1_HalfGrid ==
    (ValidInput /\ CropsChosen) =>
        /\ 2 * base_w >= d /\ 2 * base_h >= d
        /\ 2 * im2_w >= d /\ 2 * im2_h >= d

\* C2: for every valid input, the intersection recorded in the recompute package has strictly
\* positive area: ix_h >= 1 and ix_w >= 1.
C2_PositiveArea ==
    (ValidInput /\ pc = "returned") => ix_h >= 1 /\ ix_w >= 1

\* C3: in every recompute package the four shared-region offsets are >= 0,
\* ix_h is at most base_h and im2_h, and ix_w is at most base_w and im2_w.
C3_OffsetsAndExtent ==
    PackageBuilt =>
        /\ i1_shared_t >= 0 /\ i1_shared_l >= 0
        /\ i2_shared_t >= 0 /\ i2_shared_l >= 0
        /\ ix_h <= recompute_package[1] /\ ix_h <= recompute_package[5]
        /\ ix_w <= recompute_package[2] /\ ix_w <= recompute_package[6]
        /\ recompute_package[1] = base_h /\ recompute_package[2] = base_w
        /\ recompute_package[5] = im2_h /\ recompute_package[6] = im2_w

\* a package was returned whose offsets are nonzero on both crops and whose
\* shared region is a proper part of crop 1
C3_Witness ==
    /\ pc = "returned"
    /\ i1_shared_t > 0 /\ i2_shared_l > 0
    /\ ix_h >= 1 /\ ix_h < base_h /\ ix_w >= 1 /\ ix_w < im2_w

\* the three preconditions named by the error-handling section
SameSpatialSize == i1 = i2
ValidSide == i1[1] % multiple = 0 /\ i1[1] > 3 * multiple

\* C4: forward raises an assertion failure, before any crop is chosen and
\* without outputs, exactly when the two images differ in spatial size, or
\* the side is not divisible by multiple, or the side does not exceed
\* 3*multiple.
C4_AssertsExactly ==
    pc # "idle" =>
        /\ (status = "AssertionError") <=> ~(SameSpatialSize /\ ValidSide)
        /\ status = "AssertionError" => Locals0

\* C5: for every valid input, mask1 and mask2 carry full weight on exactly the pixels of the crop
\* whose grid cell lies inside both crop rectangles, and 0.5 elsewhere.
C5_MasksMarkIntersection ==
    (ValidInput /\ pc = "returned") =>
        /\ \A px \in Pixels(mask1) :
              (Weight(mask1, px[1], px[2]) = Full) <=>
                  InCrop(base_t + (px[1] \div multiple), base_l + (px[2] \div multiple),
                         im2_t, im2_l, im2_h, im2_w)
        /\ \A px \in Pixels(mask2) :
              (Weight(mask2, px[1], px[2]) = Full) <=>
                  InCrop(im2_t + (px[1] \div multiple), im2_l + (px[2] \div multiple),
                         base_t, base_l, base_h, base_w)
        /\ mask1.shape = <<base_h * multiple, base_w * multiple>>
        /\ mask2.shape = <<im2_h * multiple, im2_w * multiple>>

\* C6: the shared region relative to crop 1 and relative to crop 2 is the same
\* absolute rectangle, the intersection of the crops: base_t + i1_shared_t =
\* im2_t + i2_shared_t = max(base_t, im2_t), likewise for the left edges, and
\* offset + extent stays within each crop.
C6_SameAbsoluteRegion ==
    PackageBuilt =>
        /\ base_t + i1_shared_t = Max(base_t, im2_t)
        /\ im2_t + i2_shared_t = Max(base_t, im2_t)
        /\ base_l + i1_shared_l = Max(base_l, im2_l)
        /\ im2_l + i2_shared_l = Max(base_l, im2_l)
        /\ i1_shared_t + ix_h <= base_h /\ i1_shared_l + ix_w <= base_w
        /\ i2_shared_t + ix_h <= im2_h /\ i2_shared_l + ix_w <= im2_w
        /\ ix_h = Min(base_t + base_h, im2_t + im2_h) - Max(base_t, im2_t)
        /\ ix_w = Min(base_l + base_w, im2_l + im2_w) - Max(base_l, im2_l)

\* a package was returned for two crops that overlap properly, crop 2 starting
\* below and crop 1 starting to the right
C6_Witness ==
    /\ pc = "returned"
    /\ im2_t > base_t /\ base_l > im2_l
    /\ ix_h >= 1 /\ ix_w >= 1
    /\ base_t + base_h < im2_t + im2_h

\* Step 6 has sliced patch 1 (jt, jl still hold its jitter) / patch 2
P1Sliced == pc = "step6_p2" \/ (pc = "raised" /\ p1 # NoValue /\ p2 = NoValue)
P2Sliced == pc = "step7" \/ (pc = "raised" /\ p2 # NoValue /\ recompute_package = NoValue)

\* the jittered window of a crop stays inside an image of side dd * m
WindowInside(t, l, h, w, m, dd) ==
    /\ t * m + jt >= 0 /\ (t + h) * m + jt <= dd * m
    /\ l * m + jl >= 0 /\ (l + w) * m + jl <= dd * m

\* C8: for every jitter_range >= 0 and every multiple the jittered pixel
\* window of each patch never starts below 0 and never ends beyond d*m, so
\* each patch has exactly h*m rows and w*m columns (inputs: two squares of
\* side d*m).
C8_JitterInBounds ==
    (i1 = <<d * multiple, d * multiple>> /\ i2 = i1) =>
        /\ P1Sliced =>
              /\ WindowInside(base_t, base_l, base_h, base_w, multiple, d)
              /\ p1 = <<base_h * multiple, base_w * multiple>>
        /\ P2Sliced =>
              /\ WindowInside(im2_t, im2_l, im2_h, im2_w, multiple, d)
              /\ p2 = <<im2_h * multiple, im2_w * multiple>>

(***************************************************************************)
(* Properties of the dataset wrappers.                                     *)
(***************************************************************************)
AddedKeys(op) ==
    IF op = "ByolDatasetWrapper.__getitem__"
    THEN {"aug1", "aug2"}
    ELSE {"aug1", "aug2", "similar_region_dimensions", "masked1", "masked2",
          "aug_shared_view"}

GetItemOps == {"ByolDatasetWrapper.__getitem__", "StructuredCropDatasetWrapper.__getitem__"}

Called == wcall # NoValue

C9_SlicesFitPad ==
    rs # NoValue =>
        /\ rs.status = "ok"
        /\ \A b \in 1..Len(batch) :
              /\ rs.slices1[b] = <<batch[b][9], batch[b][10]>>
              /\ rs.slices2[b] = <<batch[b][9], batch[b][10]>>
              /\ 0 <= batch[b][9] /\ batch[b][9] <= rs.pad_dim
              /\ 0 <= batch[b][10] /\ batch[b][10] <= rs.pad_dim

(***************************************************************************)
(* Properties of DiscreteVAE.forward.                                      *)
(***************************************************************************)
\* C10: with record_codes enabled and every l at most the buffer length,
\* 0 <= code_ind < N; every recording writes exactly the positions [i, i+l)
\* with 0 <= i and i+l <= N; codes are recorded exactly on the calls where
\* internal_step before the increment is a multiple of 50; internal_step
\* increases by exactly 1 on every call.
C10_CodeCursor ==
    record_codes =>
        /\ 0 <= code_ind /\ code_ind < CodesLen
        /\ (dcall # NoValue /\ dcall.l <= CodesLen) =>
              /\ dcall.status = "ok"
              /\ internal_step = dcall.step + 1
              /\ dcall.recorded <=> (dcall.step % RecordEvery = 0)
              /\ dcall.recorded =>
                    /\ 0 <= dcall.i /\ dcall.i + dcall.l <= CodesLen
                    /\ dcall.written = <<dcall.i, dcall.i + dcall.l>>

\* the third recording, at step 100, found the cursor too close to the end of
\* the buffer and wrote the last l positions
C10_Witness ==
    /\ record_codes /\ dcall # NoValue
    /\ dcall.recorded /\ dcall.step = 2 * RecordEvery
    /\ dcall.l > 1 /\ dcall.l < CodesLen
    /\ dcall.i + dcall.l = CodesLen
    /\ code_ind = 0

(***************************************************************************)
(* Properties of the debug view of RandomSharedRegionCrop.forward.         *)
(***************************************************************************)
\* the number of crops covering grid cell (row, col)
Covering(row, col) ==
    (IF InCrop(row, col, base_t, base_l, base_h, base_w) THEN 1 ELSE 0)
    + (IF InCrop(row, col, im2_t, im2_l, im2_h, im2_w) THEN 1 ELSE 0)

\* C12: the weight mask behind aug_shared_view gives every pixel the weight
\* 0.33 * (1 + number of crop rectangles covering its grid cell), crop k
\* covering (row, col) iff t_k <= row < t_k + h_k and l_k <= col < l_k + w_k.
C12_DebugMaskMarksCrops ==
    (ValidInput /\ pc = "returned") =>
        /\ mask_dbg.shape = <<d * multiple, d * multiple>>
        /\ \A px \in Pixels(mask_dbg) :
              DebugWeight(mask_dbg, px[1], px[2]) =
                  1 + Covering(px[1] \div multiple, px[2] \div multiple)

(***************************************************************************)
(* Properties of english_cleaners.                                         *)
(***************************************************************************)
\* the number of maximal runs of whitespace of a text
RECURSIVE WhitespaceRuns(_)
WhitespaceRuns(t) ==
    IF t = <<>> THEN 0
    ELSE (IF Head(t) \in Whitespace /\ (Len(t) = 1 \/ t[2] \notin Whitespace)
          THEN 1 ELSE 0) + WhitespaceRuns(Tail(t))

\* C11: the string english_cleaners returns contains no double quote, contains
\* no two adjacent whitespace characters, and every whitespace run of the
\* input appears in it as a single space.
C11_QuotesGoneWhitespaceCollapsed ==
    cpc = "returned" =>
        /\ \A k \in 1..Len(text) : text[k] # "\""
        /\ \A k \in 1..(Len(text) - 1) :
              ~(text[k] \in Whitespace /\ text[k + 1] \in Whitespace)
        /\ \A k \in 1..Len(text) : text[k] \in Whitespace => text[k] = " "
        /\ Cardinality({ k \in 1..Len(text) : text[k] = " " }) = WhitespaceRuns(input_text)

====
